---- MODULE Spec2Model ----
(***************************************************************************)
(* Model of the package reading pipeline of go-deb (pkgfile.go):           *)
(* PackageFileReader.Read and its member handlers, the md5sums and         *)
(* control parsers, and the Checksum object.                               *)
(*                                                                         *)
(* A Go string is a sequence of one-character strings, so prefix, suffix,  *)
(* trimming, splitting and whitespace collapsing are computed rather than  *)
(* assumed.                                                                *)
(***************************************************************************)
EXTENDS Integers, Sequences, FiniteSets, TLC

VARIABLES
    archive,      \* the outer ar stream handed to NewPackageFileReader
    pfr,          \* PackageFileReader fields metaonly and hash
    pkg,          \* the PackageFile being built (pfr.pkg)
    pos,          \* index of the next ar member pfr.arcnt.Next() yields
    status,       \* "setup", "reading", "returned" or "panic"
    err,          \* cause of the panic, "nil" when there is none
    roles,        \* branch of Read taken for each member dispatched so far
    ret,          \* what Read returned to its caller
    text,         \* descriptor text given to parseMd5Sums / parseControlFile
    scanned,      \* number of lines the scanner loop has consumed
    currentName,  \* local variable currentName of parseControlFile
    fs,           \* the file at the package's origin path
    first,        \* per hash kind: file content seen by the first query
    last          \* the most recent package checksum query and its result

vars == <<archive, pfr, pkg, pos, status, err, roles, ret,
          text, scanned, currentName, fs, first, last>>

(***************************************************************************)
(* Bounds of the model.                                                    *)
(***************************************************************************)
MaxMembers == 2
MaxMd5Lines == 3
MaxControlLines == 3

(***************************************************************************)
(* Program constants.                                                      *)
(***************************************************************************)
HASH_MD5 == 0
HASH_SHA1 == 1
HASH_SHA256 == 2
Md5HexLen == 32

(***************************************************************************)
(* String functions of the Go library, as used by the source.              *)
(***************************************************************************)
IsSpace(c) == c \in {" ", "\t", "\r", "\n"}

HasPrefix(s, p) == Len(s) >= Len(p) /\ SubSeq(s, 1, Len(p)) = p

HasSuffix(s, p) == Len(s) >= Len(p) /\ SubSeq(s, Len(s) - Len(p) + 1, Len(s)) = p

TrimPrefix(s, p) == IF HasPrefix(s, p) THEN SubSeq(s, Len(p) + 1, Len(s)) ELSE s

RemoveAll(s, c) == SelectSeq(s, LAMBDA x : x # c)

RECURSIVE TrimLeft(_)
TrimLeft(s) ==
    IF s # <<>> /\ IsSpace(s[1]) THEN TrimLeft(Tail(s)) ELSE s

RECURSIVE TrimRight(_)
TrimRight(s) ==
    IF s # <<>> /\ IsSpace(s[Len(s)])
    THEN TrimRight(SubSeq(s, 1, Len(s) - 1))
    ELSE s

TrimSpace(s) == TrimRight(TrimLeft(s))

FirstIndex(s, c) ==
    LET I == {i \in 1..Len(s) : s[i] = c}
    IN  IF I = {} THEN 0 ELSE CHOOSE i \in I : \A j \in I : i <= j

LastIndex(s, c) ==
    LET I == {i \in 1..Len(s) : s[i] = c}
    IN  IF I = {} THEN 0 ELSE CHOOSE i \in I : \A j \in I : j <= i

RECURSIVE StripTrailingSlashes(_)
StripTrailingSlashes(s) ==
    IF s # <<>> /\ s[Len(s)] = "/"
    THEN StripTrailingSlashes(SubSeq(s, 1, Len(s) - 1))
    ELSE s

\* path.Base
PathBase(s) ==
    IF s = <<>> THEN <<".">>
    ELSE LET t == StripTrailingSlashes(s)
             u == SubSeq(t, LastIndex(t, "/") + 1, Len(t))
         IN  IF u = <<>> THEN <<"/">> ELSE u

\* regexp `\s+|\t+` with ReplaceAllString(s, " ")
RECURSIVE CollapseSpace(_)
CollapseSpace(s) ==
    IF s = <<>> THEN <<>>
    ELSE IF IsSpace(s[1]) THEN <<" ">> \o CollapseSpace(TrimLeft(s))
    ELSE <<s[1]>> \o CollapseSpace(Tail(s))

\* strings.Split(s, c)
RECURSIVE Split(_, _)
Split(s, c) ==
    LET i == FirstIndex(s, c)
    IN  IF i = 0 THEN <<s>>
        ELSE <<SubSeq(s, 1, i - 1)>> \o Split(SubSeq(s, i + 1, Len(s)), c)

\* strings.SplitN(s, c, 2)
SplitN2(s, c) ==
    LET i == FirstIndex(s, c)
    IN  IF i = 0 THEN <<s>>
        ELSE <<SubSeq(s, 1, i - 1), SubSeq(s, i + 1, Len(s))>>

DropCR(l) ==
    IF l # <<>> /\ l[Len(l)] = "\r" THEN SubSeq(l, 1, Len(l) - 1) ELSE l

\* the tokens of bufio.Scanner with the default split function ScanLines
RECURSIVE ScanLines(_)
ScanLines(t) ==
    IF t = <<>> THEN <<>>
    ELSE LET i == FirstIndex(t, "\n")
         IN  IF i = 0 THEN <<DropCR(t)>>
             ELSE <<DropCR(SubSeq(t, 1, i - 1))>>
                      \o ScanLines(SubSeq(t, i + 1, Len(t)))

(***************************************************************************)
(* Go maps from string to string; a missing key reads as "".               *)
(***************************************************************************)
EmptyMap == [k \in {} |-> <<>>]

MapGet(m, k) == IF k \in DOMAIN m THEN m[k] ELSE <<>>

MapPut(m, k, v) == [x \in (DOMAIN m) \cup {k} |-> IF x = k THEN v ELSE m[x]]

(***************************************************************************)
(* String literals of the source.                                          *)
(***************************************************************************)
sControlDot == <<"c", "o", "n", "t", "r", "o", "l", ".">>
sDataDot == <<"d", "a", "t", "a", ".">>
sGpgBuilder == <<"_", "g", "p", "g", "b", "u", "i", "l", "d", "e", "r">>
sDebianBinary == <<"d", "e", "b", "i", "a", "n", "-", "b", "i", "n", "a", "r", "y">>
sGz == <<".", "g", "z">>
sXz == <<".", "x", "z">>
sBz2 == <<".", "b", "z", "2">>
sLzma == <<".", "l", "z", "m", "a">>
sDotSlash == <<".", "/">>
sPostinst == <<"p", "o", "s", "t", "i", "n", "s", "t">>
sPostrm == <<"p", "o", "s", "t", "r", "m">>
sPreinst == <<"p", "r", "e", "i", "n", "s", "t">>
sPrerm == <<"p", "r", "e", "r", "m">>
sMd5sums == <<"m", "d", "5", "s", "u", "m", "s">>
sControl == <<"c", "o", "n", "t", "r", "o", "l">>
sSymbols == <<"s", "y", "m", "b", "o", "l", "s">>
sShlibs == <<"s", "h", "l", "i", "b", "s">>
sTriggers == <<"t", "r", "i", "g", "g", "e", "r", "s">>
sConffiles == <<"c", "o", "n", "f", "f", "i", "l", "e", "s">>

(***************************************************************************)
(* Checksum object.                                                        *)
(*                                                                         *)
(* A byte slice is [nil, bytes]; a digest is hex text of the length the    *)
(* hash kind produces, filled with a symbol that stands for the hashed     *)
(* content (contents that differ in their first byte have different        *)
(* digests; the empty content has its own).                                *)
(***************************************************************************)
NilBytes == [nil |-> TRUE, bytes |-> <<>>]

Bytes(b) == [nil |-> FALSE, bytes |-> b]

HashKinds == {HASH_MD5, HASH_SHA1, HASH_SHA256}

DigestHexLen(kind) ==
    CASE kind = HASH_MD5 -> 32
      [] kind = HASH_SHA1 -> 40
      [] kind = HASH_SHA256 -> 64

HexDigest(kind, data) ==
    [i \in 1..DigestHexLen(kind) |-> IF data = <<>> THEN "0" ELSE data[1]]

NilChecksum == [nil |-> TRUE, path |-> <<>>, payload |-> NilBytes, hash |-> 0]

NewChecksum(path) ==
    [nil |-> FALSE, path |-> path, payload |-> NilBytes, hash |-> 0]

NewBytesChecksum(data) ==
    [nil |-> FALSE, path |-> <<>>, payload |-> data, hash |-> 0]

\* Checksum.SetHash: [cs, err]
ChecksumSetHash(cs, hash) ==
    IF hash \in {HASH_MD5, HASH_SHA1, HASH_SHA256}
    THEN [cs |-> [cs EXCEPT !.hash = hash], err |-> "nil"]
    ELSE [cs |-> cs, err |-> "unknown hash"]

\* compute with the content of the first query of a kind kept for later ones
computeCached(cs, kind, file) ==
    LET src == IF kind \in DOMAIN first THEN first[kind] ELSE file
    IN  IF ~cs.payload.nil
        THEN [sum |-> HexDigest(kind, cs.payload.bytes), err |-> "nil"]
        ELSE IF cs.path = <<>>
        THEN [sum |-> <<>>, err |-> "no path"]
        ELSE IF ~src.exists
        THEN [sum |-> <<>>, err |-> "open"]
        ELSE [sum |-> HexDigest(kind, src.data), err |-> "nil"]

\* Checksum.compute: [sum, err]; file is the file at cs.path right now
compute(cs, kind, file) ==
    IF ~cs.payload.nil
    THEN [sum |-> HexDigest(kind, cs.payload.bytes), err |-> "nil"]
    ELSE IF cs.path = <<>>
    THEN [sum |-> <<>>, err |-> "no path"]
    ELSE IF ~file.exists
    THEN [sum |-> <<>>, err |-> "open"]
    ELSE [sum |-> HexDigest(kind, file.data), err |-> "nil"]

\* Checksum.SHA256, SHA1 and MD5: a compute error is raised as a panic
SHA256(cs, file) == compute(cs, HASH_SHA256, file)

SHA1(cs, file) == compute(cs, HASH_SHA1, file)

MD5(cs, file) == compute(cs, HASH_MD5, file)

Sum(cs, file) ==
    CASE cs.hash = HASH_MD5 -> MD5(cs, file)
      [] cs.hash = HASH_SHA1 -> SHA1(cs, file)
      [] cs.hash = HASH_SHA256 -> SHA256(cs, file)
      [] OTHER -> MD5(cs, file)

NoFile == [exists |-> FALSE, data |-> <<>>]

(***************************************************************************)
(* PackageFile.                                                            *)
(***************************************************************************)
NewPackageFile ==
    [path |-> <<>>,
     debVersion |-> <<>>,
     preinst |-> <<>>, prerm |-> <<>>, postinst |-> <<>>, postrm |-> <<>>,
     checksum |-> NilChecksum,
     control |-> EmptyMap,
     symbols |-> <<>>, shlibs |-> <<>>, triggers |-> <<>>, conffiles |-> <<>>,
     gpgbuilder |-> <<>>,
     files |-> <<>>,
     fileMd5Checksums |-> EmptyMap,
     fileCalculatedChecksums |-> EmptyMap]

setPath(c, path) == [c EXCEPT !.path = path, !.checksum = NewChecksum(path)]

\* one pass of the scanner loop of parseMd5Sums over the line it read
parseMd5Line(sums, line) ==
    LET csF == Split(CollapseSpace(line), " ")
    IN  IF Len(csF) = 2 /\ Len(csF[1]) = Md5HexLen
        THEN MapPut(sums, csF[2], csF[1])
        ELSE sums

RECURSIVE parseMd5Lines(_, _)
parseMd5Lines(sums, lines) ==
    IF lines = <<>> THEN sums
    ELSE parseMd5Lines(parseMd5Line(sums, Head(lines)), Tail(lines))

parseMd5Sums(c, data) ==
    [c EXCEPT !.fileMd5Checksums = parseMd5Lines(@, ScanLines(data))]

GetFileMd5Sums(c, path) == MapGet(c.fileMd5Checksums, TrimPrefix(path, sDotSlash))

GetFileChecksum(c, path) == MapGet(c.fileCalculatedChecksums, path)

SetCalculatedChecksum(c, path, sum) ==
    IF sum # <<>>
    THEN [c EXCEPT !.fileCalculatedChecksums = MapPut(@, path, sum)]
    ELSE c

addFileInfo(c, header) ==
    [c EXCEPT !.files = Append(@, [name |-> header.name,
                                   mode |-> header.typeflag,
                                   size |-> Len(header.content),
                                   linkname |-> header.linkname])]

\* ControlFile.setField and ControlFile.addToField
setField(control, namedata) ==
    IF Len(namedata) = 2
    THEN MapPut(control, namedata[1], namedata[2])
    ELSE control

addToField(control, name, line) ==
    IF name \in DOMAIN control
    THEN MapPut(control, name, control[name] \o <<"\n">> \o line)
    ELSE control

\* one pass of the scanner loop of parseControlFile: [control, currentName]
parseControlLine(control, current, line) ==
    IF HasPrefix(TrimSpace(line), <<"#">>)
    THEN [control |-> control, currentName |-> current]
    ELSE IF HasPrefix(line, <<" ">>) \/ HasPrefix(line, <<"\t">>)
    THEN [control |-> addToField(control, current, line), currentName |-> current]
    ELSE LET namedata == SplitN2(line, ":")
         IN  [control |-> setField(control, namedata), currentName |-> namedata[1]]

RECURSIVE parseControlLines(_, _, _)
parseControlLines(control, current, lines) ==
    IF lines = <<>> THEN control
    ELSE LET r == parseControlLine(control, current, Head(lines))
         IN  parseControlLines(r.control, r.currentName, Tail(lines))

parseControlFile(c, data) ==
    [c EXCEPT !.control = parseControlLines(@, <<>>, ScanLines(data))]

(***************************************************************************)
(* Input data: ar members, the tar entries they carry and their contents.  *)
(*                                                                         *)
(* A member is [name, ioerr, codec, entries, tarerr, text]: ioerr says     *)
(* that the underlying reader fails inside the member's bytes; codec is    *)
(* the format the bytes really are in ("gz", "xz", "bz2", "lzma", "plain"  *)
(* for a bare tar stream, "raw" for anything else); entries and tarerr     *)
(* are the headers the tar stream yields and whether it then breaks        *)
(* instead of ending; text is the bytes read as a string.                  *)
(* An entry is [name, typeflag, content, linkname, short]; short says      *)
(* that the tar stream ends inside the entry's content.                    *)
(***************************************************************************)
nDebianBinary ==
    <<"d", "e", "b", "i", "a", "n", "-", "b", "i", "n", "a", "r", "y">>

nDebianBinarySlash ==
    <<"d", "e", "b", "i", "a", "n", "-", "b", "i", "n", "a", "r", "y", "/">>

nGpgBuilder ==
    <<"_", "g", "p", "g", "b", "u", "i", "l", "d", "e", "r">>

nControlTarGz ==
    <<"c", "o", "n", "t", "r", "o", "l", ".", "t", "a", "r", ".", "g", "z">>

nDotSlashControlTarGz ==
    <<".", "/", "c", "o", "n", "t", "r", "o", "l", ".", "t", "a", "r", ".",
      "g", "z">>

nControlTarXz ==
    <<"c", "o", "n", "t", "r", "o", "l", ".", "t", "a", "r", ".", "x", "z">>

nControlTarBz2 ==
    <<"c", "o", "n", "t", "r", "o", "l", ".", "t", "a", "r", ".", "b", "z",
      "2">>

nDataTarXz ==
    <<"d", "a", "t", "a", ".", "t", "a", "r", ".", "x", "z">>

nPrefixedDataTarXz ==
    <<"p", "/", "d", "a", "t", "a", ".", "t", "a", "r", ".", "x", "z">>

nDataTar ==
    <<"d", "a", "t", "a", ".", "t", "a", "r">>

nDataTarGz ==
    <<"d", "a", "t", "a", ".", "t", "a", "r", ".", "g", "z">>

nDataTarLzma ==
    <<"d", "a", "t", "a", ".", "t", "a", "r", ".", "l", "z", "m", "a">>

nFoo ==
    <<"f", "o", "o">>

tVersion ==
    <<"2", ".", "0", "\n">>

tSignature ==
    <<" ", "s", "i", "g", "\n">>

tOpaque ==
    <<"?">>

tScript ==
    <<"#", "!", "/", "b", "i", "n", "/", "s", "h", "\n">>

tControl ==
    <<"P", "a", "c", "k", "a", "g", "e", ":", " ", "x", "\n", "D", "e",
      "s", "c", "r", "i", "p", "t", "i", "o", "n", ":", " ", "a", "\n",
      " ", "b", "\n">>

eControl ==
    <<".", "/", "c", "o", "n", "t", "r", "o", "l">>

eMd5sums ==
    <<".", "/", "m", "d", "5", "s", "u", "m", "s">>

ePostinst ==
    <<".", "/", "p", "o", "s", "t", "i", "n", "s", "t">>

eRoot ==
    <<".", "/">>

eUsr ==
    <<".", "/", "u", "s", "r", "/">>

eUsrF ==
    <<".", "/", "u", "s", "r", "/", "f">>

eUsrL ==
    <<".", "/", "u", "s", "r", "/", "l">>

eEmpty ==
    <<".", "/", "e">>

eShort ==
    <<"x">>

pUsrF ==
    <<"u", "s", "r", "/", "f">>

pDotEtcG ==
    <<".", "/", "e", "t", "c", "/", "g">>

HashA == [i \in 1..32 |-> "a"]

HashB == [i \in 1..32 |-> "b"]

tMd5sums ==
    HashA \o <<" ", " ">> \o pUsrF \o <<"\n">>
        \o HashB \o <<" ", " ">> \o pDotEtcG \o <<"\n">>

Entry(name, typeflag, content) ==
    [name |-> name, typeflag |-> typeflag, content |-> content,
     linkname |-> IF typeflag = "symlink" THEN <<"f">> ELSE <<>>,
     short |-> FALSE]

RawMember(name, body) ==
    [name |-> name, ioerr |-> FALSE, codec |-> "raw", entries |-> <<>>,
     tarerr |-> FALSE, text |-> body]

TarMember(name, codec, entries) ==
    [name |-> name, ioerr |-> FALSE, codec |-> codec, entries |-> entries,
     tarerr |-> FALSE, text |-> tOpaque]

ControlEntries ==
    <<Entry(eRoot, "dir", <<>>),
      Entry(eControl, "reg", tControl),
      Entry(eMd5sums, "reg", tMd5sums),
      Entry(ePostinst, "reg", tScript)>>

DataEntries ==
    <<Entry(eUsr, "dir", <<>>),
      Entry(eUsrF, "reg", <<"A">>),
      Entry(eUsrL, "symlink", <<>>),
      Entry(eUsrF, "reg", <<"B">>),
      Entry(eEmpty, "reg", <<>>)>>

Members ==
    {RawMember(nDebianBinary, tVersion),
     RawMember(nDebianBinarySlash, tVersion),
     RawMember(nGpgBuilder, tSignature),
     RawMember(nFoo, tVersion),
     [RawMember(nFoo, tVersion) EXCEPT !.ioerr = TRUE],
     TarMember(nControlTarGz, "gz", ControlEntries),
     TarMember(nDotSlashControlTarGz, "gz", ControlEntries),
     RawMember(nControlTarGz, tOpaque),
     [TarMember(nControlTarXz, "xz", <<>>) EXCEPT !.tarerr = TRUE],
     TarMember(nControlTarBz2, "bz2", <<Entry(eShort, "reg", tScript)>>),
     TarMember(nDataTarXz, "xz", DataEntries),
     TarMember(nPrefixedDataTarXz, "xz", DataEntries),
     TarMember(nDataTar, "plain", <<Entry(eUsrF, "reg", <<"A">>)>>),
     [TarMember(nDataTarGz, "gz", <<Entry(eUsrF, "reg", <<"A">>)>>)
         EXCEPT !.tarerr = TRUE],
     TarMember(nDataTarGz, "gz",
               <<[Entry(eUsrF, "reg", <<"A">>) EXCEPT !.short = TRUE]>>),
     [TarMember(nDataTarLzma, "lzma", DataEntries) EXCEPT !.ioerr = TRUE]}

SeqsUpTo(S, n) == UNION {[1..k -> S] : k \in 0..n}

\* the stream: its members, and whether it then ends or breaks
Archives ==
    {[members |-> ms, tail |-> t] :
        ms \in SeqsUpTo(Members, MaxMembers), t \in {"eof", "err"}}

\* option values a caller may pass: the three hash kinds and an unknown one
HashInputs == {HASH_MD5, HASH_SHA1, HASH_SHA256, HASH_SHA256 + 1}

(***************************************************************************)
(* PackageFileReader: the member handlers.  A handler yields [pkg, err];   *)
(* err is "nil", or the cause of the panic that ends the handler, and pkg  *)
(* is then the package as the panic left it.                               *)
(***************************************************************************)
Ok(c) == [pkg |-> c, err |-> "nil"]

Panic(c, cause) == [pkg |-> c, err |-> cause]

\* the codec decompressTar picks from the suffix of the member name
SuffixCodec(name) ==
    IF HasSuffix(name, sGz) THEN "gz"
    ELSE IF HasSuffix(name, sXz) THEN "xz"
    ELSE IF HasSuffix(name, sBz2) THEN "bz2"
    ELSE IF HasSuffix(name, sLzma) THEN "lzma"
    ELSE "none"

\* decompressTar: the tar reader it returns, as [entries, tarerr, err]
decompressTar(name, m) ==
    IF m.ioerr
    THEN [entries |-> <<>>, tarerr |-> FALSE, err |-> "copy"]
    ELSE IF SuffixCodec(name) = "none"
    THEN [entries |-> <<>>, tarerr |-> FALSE, err |-> "nil"]
    ELSE IF m.codec # SuffixCodec(name)
    THEN [entries |-> <<>>, tarerr |-> FALSE, err |-> "decompress"]
    ELSE [entries |-> m.entries, tarerr |-> m.tarerr, err |-> "nil"]

processGpgBuilderFile(c, m) ==
    IF m.ioerr THEN Panic(c, "copy")
    ELSE Ok([c EXCEPT !.gpgbuilder = TrimSpace(m.text)])

processDebianBinaryFile(c, m) ==
    IF m.ioerr THEN Panic(c, "copy")
    ELSE Ok([c EXCEPT !.debVersion = TrimSpace(m.text)])

\* the switch of processControlFile on hdr.Name[2:]
controlSwitch(c, n, data) ==
    CASE n = sPostinst -> [c EXCEPT !.postinst = data]
      [] n = sPostrm -> [c EXCEPT !.postrm = data]
      [] n = sPreinst -> [c EXCEPT !.preinst = data]
      [] n = sPrerm -> [c EXCEPT !.prerm = data]
      [] n = sMd5sums -> parseMd5Sums(c, data)
      [] n = sControl -> parseControlFile(c, data)
      [] n = sSymbols -> [c EXCEPT !.symbols = data]
      [] n = sShlibs -> [c EXCEPT !.shlibs = data]
      [] n = sTriggers -> [c EXCEPT !.triggers = data]
      [] n = sConffiles -> [c EXCEPT !.conffiles = data]
      [] OTHER -> c

\* the body of the loop of processControlFile for one header
controlEntry(c, hdr) ==
    IF hdr.typeflag # "reg" THEN Ok(c)
    ELSE IF hdr.short THEN Panic(c, "copy")
    ELSE IF Len(hdr.name) < 2 THEN Panic(c, "slice bounds")
    ELSE Ok(controlSwitch(c, SubSeq(hdr.name, 3, Len(hdr.name)), hdr.content))

RECURSIVE controlWalk(_, _, _)
controlWalk(c, entries, tarerr) ==
    IF entries = <<>>
    THEN IF tarerr THEN Panic(c, "tar") ELSE Ok(c)
    ELSE LET r == controlEntry(c, Head(entries))
         IN  IF r.err # "nil" THEN r
             ELSE controlWalk(r.pkg, Tail(entries), tarerr)

processControlFile(c, name, m) ==
    LET t == decompressTar(name, m)
    IN  IF t.err # "nil" THEN Panic(c, t.err)
        ELSE controlWalk(c, t.entries, t.tarerr)

\* the body of the loop of processDataFile for one header; io.Copy has
\* written databuf, so databuf.Bytes() is not nil even for an empty file
dataEntry(p, c, hdr) ==
    LET c1 == addFileInfo(c, hdr)
        cs == ChecksumSetHash(NewBytesChecksum(Bytes(hdr.content)), p.hash)
        sum == Sum(cs.cs, NoFile)
    IN  IF hdr.typeflag # "reg" THEN Ok(c1)
        ELSE IF hdr.short THEN Panic(c1, "copy")
        ELSE IF cs.err # "nil" THEN Panic(c1, cs.err)
        ELSE IF sum.err # "nil" THEN Panic(c1, sum.err)
        ELSE Ok(SetCalculatedChecksum(c1, hdr.name, sum.sum))

RECURSIVE dataWalk(_, _, _, _)
dataWalk(p, c, entries, tarerr) ==
    IF entries = <<>>
    THEN IF tarerr THEN Panic(c, "nil header") ELSE Ok(c)
    ELSE LET r == dataEntry(p, c, Head(entries))
         IN  IF r.err # "nil" THEN r
             ELSE dataWalk(p, r.pkg, Tail(entries), tarerr)

processDataFile(p, c, name, m) ==
    IF p.metaonly THEN Ok(c)
    ELSE LET t == decompressTar(name, m)
         IN  IF t.err # "nil" THEN Panic(c, t.err)
             ELSE dataWalk(p, c, t.entries, t.tarerr)

(***************************************************************************)
(* PackageFileReader.Read: the dispatch of one member.                     *)
(***************************************************************************)
NormalizeName(name) == PathBase(RemoveAll(name, "/"))

\* which branch of the if-chain of Read the normalized name takes
Dispatch(name) ==
    IF HasPrefix(name, sControlDot) THEN "control"
    ELSE IF HasPrefix(name, sDataDot) THEN "data"
    ELSE IF name = sGpgBuilder THEN "gpgbuilder"
    ELSE IF name = sDebianBinary THEN "debian-binary"
    ELSE "none"

\* the last branch of the if-chain taken by every remaining name
processMemberLastBranchOpen(p, c, m) ==
    LET name == NormalizeName(m.name)
        role == Dispatch(name)
    IN  CASE role = "control" -> processControlFile(c, name, m)
          [] role = "data" -> processDataFile(p, c, name, m)
          [] role = "gpgbuilder" -> processGpgBuilderFile(c, m)
          [] OTHER -> processDebianBinaryFile(c, m)

processMember(p, c, m) ==
    LET name == NormalizeName(m.name)
        role == Dispatch(name)
    IN  CASE role = "control" -> processControlFile(c, name, m)
          [] role = "data" -> processDataFile(p, c, name, m)
          [] role = "gpgbuilder" -> processGpgBuilderFile(c, m)
          [] role = "debian-binary" -> processDebianBinaryFile(c, m)
          [] OTHER -> Ok(c)

\* whether the handler of m reads the bytes of m
bodyRead(p, m) ==
    LET role == Dispatch(NormalizeName(m.name))
    IN  role \in {"control", "gpgbuilder", "debian-binary"}
            \/ (role = "data" /\ ~p.metaonly)

\* pfr.arcnt.Next() with i - 1 members consumed: a header, io.EOF or another
\* error; Next first skips what the last handler left unread of its member
arNext(ar, p, i) ==
    IF i > 1 /\ ar.members[i - 1].ioerr /\ ~bodyRead(p, ar.members[i - 1])
    THEN "err"
    ELSE IF i > Len(ar.members) THEN ar.tail
    ELSE "header"

\* Read as a whole, from member i on: [status, err, pkg]
RECURSIVE ReadFrom(_, _, _, _)
ReadFrom(ar, p, c, i) ==
    LET nx == arNext(ar, p, i)
    IN  IF nx = "err" THEN [status |-> "panic", err |-> "ar", pkg |-> c]
        ELSE IF nx = "eof" THEN [status |-> "returned", err |-> "nil", pkg |-> c]
        ELSE LET r == processMember(p, c, ar.members[i])
             IN  IF r.err # "nil"
                 THEN [status |-> "panic", err |-> r.err, pkg |-> r.pkg]
                 ELSE ReadFrom(ar, p, r.pkg, i + 1)

(***************************************************************************)
(* Specification of the reader: construction, the option setters, and the  *)
(* loop of Read, one pass per step.                                        *)
(***************************************************************************)
NewPackageFileReader == [metaonly |-> TRUE, hash |-> 0]

ParserIdle == text = <<>> /\ scanned = 0 /\ currentName = <<>>

ChecksumIdle == fs = NoFile /\ first = <<>> /\ last = <<>>

Init ==
    /\ archive \in Archives
    /\ pfr = NewPackageFileReader
    /\ pkg = NewPackageFile
    /\ pos = 1
    /\ status = "setup"
    /\ err = "nil"
    /\ roles = <<>>
    /\ ret = <<>>
    /\ ParserIdle
    /\ ChecksumIdle

SetMetaonly(metaonly) ==
    /\ status = "setup"
    /\ pfr' = [pfr EXCEPT !.metaonly = metaonly]
    /\ UNCHANGED <<archive, pkg, pos, status, err, roles, ret,
                   text, scanned, currentName, fs, first, last>>

SetHash(hash) ==
    /\ status = "setup"
    /\ pfr' = [pfr EXCEPT !.hash = hash]
    /\ UNCHANGED <<archive, pkg, pos, status, err, roles, ret,
                   text, scanned, currentName, fs, first, last>>

\* Next yields a header: the name is normalized and the member dispatched
ReadMember ==
    /\ status \in {"setup", "reading"}
    /\ arNext(archive, pfr, pos) = "header"
    /\ LET m == archive.members[pos]
           r == processMember(pfr, pkg, m)
       IN  /\ roles' = Append(roles, Dispatch(NormalizeName(m.name)))
           /\ pkg' = r.pkg
           /\ err' = r.err
           /\ status' = IF r.err = "nil" THEN "reading" ELSE "panic"
           /\ pos' = IF r.err = "nil" THEN pos + 1 ELSE pos
    /\ UNCHANGED <<archive, pfr, ret, text, scanned, currentName, fs, first, last>>

\* Next yields io.EOF: Read returns the package and a nil error
ReadEOF ==
    /\ status \in {"setup", "reading"}
    /\ arNext(archive, pfr, pos) = "eof"
    /\ status' = "returned"
    /\ ret' = <<[pkg |-> pkg, err |-> "nil"]>>
    /\ UNCHANGED <<archive, pfr, pkg, pos, err, roles,
                   text, scanned, currentName, fs, first, last>>

\* Next yields another error: Read panics with it
ReadError ==
    /\ status \in {"setup", "reading"}
    /\ arNext(archive, pfr, pos) = "err"
    /\ status' = "panic"
    /\ err' = "ar"
    /\ UNCHANGED <<archive, pfr, pkg, pos, roles, ret,
                   text, scanned, currentName, fs, first, last>>

Next ==
    \/ \E metaonly \in BOOLEAN : SetMetaonly(metaonly)
    \/ \E hash \in HashInputs : SetHash(hash)
    \/ ReadMember
    \/ ReadEOF
    \/ ReadError

Spec == Init /\ [][Next]_vars

(***************************************************************************)
(* Properties of the reader.                                               *)
(***************************************************************************)
Returned == status = "returned" /\ ret # <<>>

\* C1: every failure during Read ends it by returning a non-nil error and no
\* package; Read never ends by panicking.
C1_FailuresAreReturnedErrors ==
    /\ status # "panic"
    /\ err # "nil" => (Returned /\ ret[1].err # "nil")

\* the lines of a descriptor the md5sums rule accepts, as <<hash, path>>
AcceptedLines(data) ==
    LET lines == ScanLines(data)
        tokens(i) == Split(CollapseSpace(lines[i]), " ")
    IN  {tokens(i) : i \in {j \in 1..Len(lines) :
                                Len(tokens(j)) = 2 /\ Len(tokens(j)[1]) = 32}}

\* the md5sums descriptors of the control members Read has processed
Md5Descriptors ==
    UNION {{archive.members[i].entries[k].content :
                k \in {j \in 1..Len(archive.members[i].entries) :
                    /\ archive.members[i].entries[j].typeflag = "reg"
                    /\ archive.members[i].entries[j].name = eMd5sums}} :
           i \in {j \in 1..Len(roles) : roles[j] = "control"}}

\* C2: for every path of an accepted md5sums line, written with or without a
\* leading "./", GetFileMd5Sums(path) is the hash of that line, whatever the
\* options.
C2_DeclaredHashIsReturned ==
    Returned =>
        \A data \in Md5Descriptors : \A line \in AcceptedLines(data) :
            GetFileMd5Sums(ret[1].pkg, line[2]) = line[1]

\* the entries of the data members Read has dispatched, in container order
RECURSIVE DataMemberEntries(_)
DataMemberEntries(i) ==
    IF i = 0 THEN <<>>
    ELSE DataMemberEntries(i - 1)
            \o (IF roles[i] = "data" THEN archive.members[i].entries ELSE <<>>)

RegularNames(entries) ==
    {entries[k].name : k \in {j \in 1..Len(entries) : entries[j].typeflag = "reg"}}

\* C3: after a successful full read with a known hash, every regular file of
\* the data member has a calculated checksum of the hash's hex length under
\* its verbatim path, and nothing else has one.
C3_RegularFilesAreHashed ==
    (Returned /\ ~pfr.metaonly /\ pfr.hash \in HashKinds) =>
        LET names == RegularNames(DataMemberEntries(Len(roles)))
        IN  /\ \A n \in names :
                   Len(GetFileChecksum(ret[1].pkg, n)) = DigestHexLen(pfr.hash)
            /\ DOMAIN ret[1].pkg.fileCalculatedChecksums \subseteq names

\* a member whose normalized name matches none of the roles
Unrecognized(m) ==
    LET n == NormalizeName(m.name)
    IN  /\ ~HasPrefix(n, sControlDot)
        /\ ~HasPrefix(n, sDataDot)
        /\ n # sGpgBuilder
        /\ n # sDebianBinary

\* the stream with its unrecognized members taken out; a stream that breaks
\* inside such a member breaks at the place the member was
RECURSIVE DropUnrecognized(_)
DropUnrecognized(ms) ==
    IF ms = <<>> THEN [members |-> <<>>, broken |-> FALSE]
    ELSE IF Unrecognized(Head(ms))
    THEN IF Head(ms).ioerr
         THEN [members |-> <<>>, broken |-> TRUE]
         ELSE DropUnrecognized(Tail(ms))
    ELSE LET r == DropUnrecognized(Tail(ms))
         IN  [members |-> <<Head(ms)>> \o r.members, broken |-> r.broken]

WithoutUnrecognized(ar) ==
    LET r == DropUnrecognized(ar.members)
    IN  [members |-> r.members, tail |-> IF r.broken THEN "err" ELSE ar.tail]

\* C4: unrecognized members are skipped without error and change no field:
\* at every point of the scan the package is the one a read of the members
\* seen so far without the unrecognized ones builds, and Read ends as the
\* read of the stream without them ends.
C4_UnrecognizedMembersAreSkipped ==
    LET seen == IF status \in {"returned", "panic"} THEN archive
                ELSE [members |-> SubSeq(archive.members, 1, pos - 1),
                      tail |-> "eof"]
        out == ReadFrom(WithoutUnrecognized(seen), pfr, NewPackageFile, 1)
    IN  /\ pkg = out.pkg
        /\ status \in {"returned", "panic"} => (status = out.status /\ err = out.err)
        /\ Returned => ret[1] = [pkg |-> out.pkg, err |-> "nil"]

\* Read returned after skipping an unrecognized member and then filling a field
C4_Witness ==
    /\ Returned
    /\ Len(roles) = 2
    /\ roles[1] = "none"
    /\ roles[2] = "debian-binary"
    /\ ret[1].pkg.debVersion = <<"2", ".", "0">>

\* C5: a hash other than HASH_MD5, HASH_SHA1, HASH_SHA256 is a configuration
\* error raised when the option is set, before any member is processed, in
\* every mode; it is never accepted silently.
C5_UnknownHashRejectedAtSetup ==
    pfr.hash \notin HashKinds => (status = "panic" /\ roles = <<>>)

FileRecord(e) ==
    [name |-> e.name, mode |-> e.typeflag, size |-> Len(e.content),
     linkname |-> e.linkname]

\* C6: in both modes, after a successful read the inventory holds one record
\* per entry of the data member, in container order, duplicates kept; in
\* metadata-only mode the calculated store stays empty.
C6_InventoryInBothModes ==
    Returned =>
        LET entries == DataMemberEntries(Len(roles))
        IN  /\ ret[1].pkg.files = [k \in 1..Len(entries) |-> FileRecord(entries[k])]
            /\ pfr.metaonly => ret[1].pkg.fileCalculatedChecksums = EmptyMap

\* the role the claim gives a final path segment
SegmentRole(s) ==
    IF HasPrefix(s, sControlDot) THEN "control"
    ELSE IF HasPrefix(s, sDataDot) THEN "data"
    ELSE IF s = sGpgBuilder THEN "gpgbuilder"
    ELSE IF s = sDebianBinary THEN "debian-binary"
    ELSE "none"

\* C9: a member is given the role its final path segment alone would get,
\* whatever directory prefixes precede the segment.
C9_RoleOfFinalSegment ==
    \A i \in 1..Len(roles) :
        roles[i] = SegmentRole(PathBase(archive.members[i].name))

(***************************************************************************)
(* Specification of parseMd5Sums: the scanner loop over a descriptor text, *)
(* one line per step.                                                      *)
(***************************************************************************)
Hash31 == [i \in 1..31 |-> "c"]

Md5Lines ==
    {HashA \o <<" ", " ">> \o pUsrF,
     HashB \o <<" ">> \o pDotEtcG,
     HashB \o <<"\t">> \o pUsrF \o <<"\r">>,
     <<"b", "a", "d", "h", "a", "s", "h", " ", "f", "o", "o">>,
     <<" ">> \o HashA \o <<" ", "x">>,
     HashA \o <<" ", "a", " ", "b">>,
     Hash31 \o <<" ">> \o pUsrF,
     <<>>}

RECURSIVE JoinLines(_)
JoinLines(ls) ==
    IF ls = <<>> THEN <<>> ELSE Head(ls) \o <<"\n">> \o JoinLines(Tail(ls))

ReaderIdle ==
    /\ archive = [members |-> <<>>, tail |-> "eof"]
    /\ pfr = NewPackageFileReader
    /\ pos = 1
    /\ err = "nil"
    /\ roles = <<>>
    /\ ret = <<>>

InitMd5 ==
    /\ text \in {JoinLines(ls) : ls \in SeqsUpTo(Md5Lines, MaxMd5Lines)}
    /\ scanned = 0
    /\ currentName = <<>>
    /\ pkg = NewPackageFile
    /\ status = "scanning"
    /\ ReaderIdle
    /\ ChecksumIdle

\* scn.Scan() yields a line: the body of the loop of parseMd5Sums
ScanMd5Line ==
    /\ status = "scanning"
    /\ scanned < Len(ScanLines(text))
    /\ pkg' = [pkg EXCEPT !.fileMd5Checksums =
                    parseMd5Line(@, ScanLines(text)[scanned + 1])]
    /\ scanned' = scanned + 1
    /\ UNCHANGED <<archive, pfr, pos, status, err, roles, ret,
                   text, currentName, fs, first, last>>

\* scn.Scan() yields false: the loop ends and the parser returns
ScanEnd ==
    /\ status = "scanning"
    /\ scanned = Len(ScanLines(text))
    /\ status' = "parsed"
    /\ UNCHANGED <<archive, pfr, pkg, pos, err, roles, ret,
                   text, scanned, currentName, fs, first, last>>

NextMd5 == ScanMd5Line \/ ScanEnd

SpecMd5 == InitMd5 /\ [][NextMd5]_vars

\* the store the rule of the claim builds from lines
RECURSIVE DeclaredStore(_, _)
DeclaredStore(sums, lines) ==
    IF lines = <<>> THEN sums
    ELSE LET tokens == Split(CollapseSpace(Head(lines)), " ")
         IN  DeclaredStore(
                 IF Len(tokens) = 2 /\ Len(tokens[1]) = 32
                 THEN MapPut(sums, TrimPrefix(tokens[2], sDotSlash), tokens[1])
                 ELSE sums,
                 Tail(lines))

\* C7: the declared store holds exactly the accepted lines (two tokens after
\* collapsing whitespace, the first 32 long), each under its second token
\* with a leading "./" stripped; any other line leaves the store unchanged.
C7_DeclaredStoreExact ==
    pkg.fileMd5Checksums = DeclaredStore(EmptyMap, SubSeq(ScanLines(text), 1, scanned))

(***************************************************************************)
(* Specification of parseControlFile: the scanner loop over a control      *)
(* text, one line per step.                                                *)
(***************************************************************************)
ControlLines ==
    {<<"P", "a", "c", "k", "a", "g", "e", ":", " ", "x">>,
     <<"D", "e", "s", "c", "r", "i", "p", "t", "i", "o", "n", ":", " ", "a">>,
     <<"H", "o", "m", "e", "p", "a", "g", "e", ":", " ", "h", ":", "1">>,
     <<"N", "o", "c", "o", "l", "o", "n">>,
     <<" ", "b">>,
     <<"\t", "c">>,
     <<"#", " ", "n">>,
     <<" ", "#", "f">>,
     <<>>}

InitControl ==
    /\ text \in {JoinLines(ls) : ls \in SeqsUpTo(ControlLines, MaxControlLines)}
    /\ scanned = 0
    /\ currentName = <<>>
    /\ pkg = NewPackageFile
    /\ status = "scanning"
    /\ ReaderIdle
    /\ ChecksumIdle

\* scn.Scan() yields a line: the body of the loop of parseControlFile
ScanControlLine ==
    /\ status = "scanning"
    /\ scanned < Len(ScanLines(text))
    /\ LET r == parseControlLine(pkg.control, currentName,
                                 ScanLines(text)[scanned + 1])
       IN  /\ pkg' = [pkg EXCEPT !.control = r.control]
           /\ currentName' = r.currentName
    /\ scanned' = scanned + 1
    /\ UNCHANGED <<archive, pfr, pos, status, err, roles, ret,
                   text, fs, first, last>>

NextControl == ScanControlLine \/ ScanEnd

SpecControl == InitControl /\ [][NextControl]_vars

IsComment(line) == HasPrefix(TrimSpace(line), <<"#">>)

IsContinuation(line) == HasPrefix(line, <<" ">>) \/ HasPrefix(line, <<"\t">>)

IsHeader(line) == line # <<>> /\ ~IsComment(line) /\ ~IsContinuation(line)

\* the current field by the rule of the claim: the name of the most recent
\* header line, "" before the first
RECURSIVE CurrentField(_)
CurrentField(lines) ==
    IF lines = <<>> THEN <<>>
    ELSE IF IsHeader(lines[Len(lines)])
    THEN SplitN2(lines[Len(lines)], ":")[1]
    ELSE CurrentField(SubSeq(lines, 1, Len(lines) - 1))

\* the field map by the rule of the claim
RECURSIVE FoldedFields(_)
FoldedFields(lines) ==
    IF lines = <<>> THEN EmptyMap
    ELSE LET before == SubSeq(lines, 1, Len(lines) - 1)
             line == lines[Len(lines)]
         IN  IF IsHeader(line)
             THEN setField(FoldedFields(before), SplitN2(line, ":"))
             ELSE IF line # <<>> /\ ~IsComment(line)
             THEN addToField(FoldedFields(before), CurrentField(before), line)
             ELSE FoldedFields(before)

\* C10: the current field is always the name of the most recent line that is
\* non-empty, not a continuation and not a comment; comments and empty lines
\* change nothing, and a continuation is appended to the current field only.
C10_CurrentFieldIsLastHeader ==
    LET lines == SubSeq(ScanLines(text), 1, scanned)
    IN  /\ currentName = CurrentField(lines)
        /\ pkg.control = FoldedFields(lines)

(***************************************************************************)
(* Specification of the package checksum: a package as Read returned it,   *)
(* setPath as OpenPackageFile calls it, queries of the Checksum object,    *)
(* and the file at the origin path changing under it.                      *)
(***************************************************************************)
LocalPath == <<"p">>

UrlPath == <<"h", "t", "t", "p", ":", "/", "/", "h", "/", "p">>

FileWith(data) == [exists |-> TRUE, data |-> data]

Contents == {<<"A">>, <<"B">>}

\* what os.Open(path) finds
FileAt(path) == IF path = LocalPath THEN fs ELSE NoFile

InitSum ==
    /\ fs \in {FileWith(d) : d \in Contents}
    /\ first = <<>>
    /\ last = <<>>
    /\ pkg = NewPackageFile
    /\ status = "returned"
    /\ ReaderIdle
    /\ ParserIdle

\* openPackagePath and openPackageURL: p.setPath(path) on the package read
OpenPackage(path) ==
    /\ pkg.checksum.nil
    /\ path = LocalPath => fs.exists
    /\ pkg' = setPath(pkg, path)
    /\ UNCHANGED <<archive, pfr, pos, status, err, roles, ret,
                   text, scanned, currentName, fs, first, last>>

\* something outside the program rewrites the file
WriteFile(data) ==
    /\ fs # FileWith(data)
    /\ fs' = FileWith(data)
    /\ UNCHANGED <<archive, pfr, pkg, pos, status, err, roles, ret,
                   text, scanned, currentName, first, last>>

\* something outside the program removes the file
RemoveFile ==
    /\ fs.exists
    /\ fs' = NoFile
    /\ UNCHANGED <<archive, pfr, pkg, pos, status, err, roles, ret,
                   text, scanned, currentName, first, last>>

\* GetPackageChecksum().MD5(), .SHA1() or .SHA256(); a non-nil err of the
\* result is the panic the method raises
QueryChecksum(kind) ==
    /\ LET file == FileAt(pkg.checksum.path)
           r == CASE kind = HASH_MD5 -> MD5(pkg.checksum, file)
                  [] kind = HASH_SHA1 -> SHA1(pkg.checksum, file)
                  [] kind = HASH_SHA256 -> SHA256(pkg.checksum, file)
       IN  IF pkg.checksum.nil
           THEN \* the method dereferences a nil *Checksum
                /\ last' = <<[kind |-> kind, sum |-> <<>>, err |-> "nil pointer",
                              seen |-> NoFile]>>
                /\ first' = first
           ELSE /\ last' = <<[kind |-> kind, sum |-> r.sum, err |-> r.err,
                              seen |-> file]>>
                /\ first' = [k \in (DOMAIN first) \cup {kind} |->
                                 IF k \in DOMAIN first THEN first[k] ELSE file]
    /\ UNCHANGED <<archive, pfr, pkg, pos, status, err, roles, ret,
                   text, scanned, currentName, fs>>

NextSum ==
    \/ \E path \in {LocalPath, UrlPath} : OpenPackage(path)
    \/ \E data \in Contents : WriteFile(data)
    \/ RemoveFile
    \/ \E kind \in HashKinds : QueryChecksum(kind)

SpecSum == InitSum /\ [][NextSum]_vars

====
